---- MODULE Spec2Model ----
(***************************************************************************)
(* Model of the OCR pipeline of src/ocr_utils.py: OCRProcessor and its     *)
(* process_document facade, the image path (extract_text_from_image) and   *)
(* the two-phase PDF path (extract_text_from_pdf).                         *)
(*                                                                         *)
(* Text is a sequence of one-character strings.  An error message is a     *)
(* sequence too: the literal prefix of an f-string is one element, the     *)
(* interpolated value follows it (character by character for a file name,  *)
(* as one element for the str(e) of a library exception).                  *)
(***************************************************************************)
EXTENDS Integers, Sequences, FiniteSets, TLC

\* ------------------------------------------------------------------ bounds
\* Largest number of pages a PDF parser or the rasterizer hands back.
MaxPages == 3

\* len(text.strip()) < 50 in extract_text_from_pdf
OCR_THRESHOLD == 50

\* ------------------------------------------------------- string functions
\* Characters str.strip() removes (space, newline, tab, form feed).
WS == {" ", "\n", "\t", "\f"}

Rep(c, n) == [i \in 1..n |-> c]

RECURSIVE lstrip(_)
lstrip(s) ==
    IF s = <<>> THEN <<>>
    ELSE IF Head(s) \in WS THEN lstrip(Tail(s)) ELSE s

RECURSIVE rstrip(_)
rstrip(s) ==
    IF s = <<>> THEN <<>>
    ELSE IF s[Len(s)] \in WS THEN rstrip(SubSeq(s, 1, Len(s) - 1)) ELSE s

\* a strip that forgets the leading side
strip_trailing_only(s) == rstrip(s)

\* str.strip()
strip(s) == rstrip(lstrip(s))

UPPER == <<"A","B","C","D","E","F","G","H","I","J","K","L","M",
           "N","O","P","Q","R","S","T","U","V","W","X","Y","Z">>
LOWER == <<"a","b","c","d","e","f","g","h","i","j","k","l","m",
           "n","o","p","q","r","s","t","u","v","w","x","y","z">>

lower_char(c) ==
    IF \E i \in DOMAIN UPPER : UPPER[i] = c
    THEN LOWER[CHOOSE i \in DOMAIN UPPER : UPPER[i] = c]
    ELSE c

\* a lower() that leaves the name as it is
lower_identity(s) == s

\* str.lower()
lower(s) == [i \in 1..Len(s) |-> lower_char(s[i])]

\* str.endswith(suffix)
endswith(s, suf) ==
    /\ Len(s) >= Len(suf)
    /\ SubSeq(s, Len(s) - Len(suf) + 1, Len(s)) = suf

\* sep.join(parts)
RECURSIVE join(_, _)
join(sep, parts) ==
    IF parts = <<>> THEN <<>>
    ELSE IF Len(parts) = 1 THEN parts[1]
    ELSE parts[1] \o sep \o join(sep, Tail(parts))

\* ------------------------------------------------------------------ inputs
EXT_PDF  == <<".", "p", "d", "f">>
EXT_JPG  == <<".", "j", "p", "g">>
EXT_JPEG == <<".", "j", "p", "e", "g">>
EXT_PNG  == <<".", "p", "n", "g">>

ScanPDF  == <<"s", "c", "a", "n", ".", "P", "D", "F">>
DocPdf   == <<"d", ".", "p", "d", "f">>
PhotoJPG == <<"p", "h", "o", "t", "o", ".", "J", "P", "G">>
PicJpeg  == <<"p", ".", "j", "p", "e", "g">>
ImgPng   == <<"i", ".", "P", "n", "g">>
DocDocx  == <<"d", "o", "c", ".", "d", "o", "c", "x">>
MixedDocx == <<"D", "o", "c", ".", "D", "O", "C", "X">>
BarePdf  == <<"p", "d", "f">>
PdfTxt   == <<"a", ".", "p", "d", "f", ".", "t", "x", "t">>

PdfNames   == {ScanPDF, DocPdf}
ImageNames == {PhotoJPG, PicJpeg, ImgPng}
OtherNames == {DocDocx, MixedDocx, BarePdf, PdfTxt}
FileNames  == PdfNames \cup ImageNames \cup OtherNames
NoFile     == <<>>

\* What page.extract_text() can return for one page.
NativePageTexts ==
    { <<>>,
      <<" ", "\n">>,
      Rep("n", 10),
      Rep("n", 24),
      Rep("m", 25),
      <<" ">> \o Rep("k", 49) }

\* What pytesseract.image_to_string can return for one image.
TessTexts ==
    { <<>>,
      <<"x", "\n", "\f">>,
      <<" ", "y", " ", "z">> }

\* What easyocr's readtext can return: a list of (bbox, text, confidence).
Frag(t) == <<"bbox", t, "conf">>
EasyResults ==
    { <<>>,
      << Frag(<<"H", "i">>), Frag(<<"y", "o">>) >>,
      << Frag(<<" ", "w">>) >> }

\* str(e) of a library exception.
Causes == {"cause A", "cause B"}
NoCause == "none"

Engines == {"tesseract", "easyocr", "paddle"}

\* ------------------------------------------------------------------- state
VARIABLES
    OCR_ENGINE,      \* self.config.OCR_ENGINE
    easyocr_reader,  \* TRUE iff self.easyocr_reader was constructed
    pc,              \* position inside process_document
    fileName,        \* file.name as the caller supplied it
    filePos,         \* read position of the file object
    text,            \* the local `text` of extract_text_from_pdf / _image
    nImages,         \* len(images) after convert_from_bytes
    pageIdx,         \* pages consumed by the running loop
    result,          \* what process_document handed to its caller
    nativeText,      \* `text` when the threshold was checked
    nativeFailed,    \* the native phase raised
    path,            \* "none" | "native" | "ocr" | "image" | "unsupported"
    ocrTexts,        \* per-page recognizer outputs of this call, in order
    engineOuts,      \* raw outputs of the recognizer calls of this call, in
                     \* order
    nRead,           \* calls of file.read()
    nOpen,           \* calls of Image.open
    nNative,         \* calls of PyPDF2.PdfReader
    nRaster,         \* calls of convert_from_bytes
    nPre,            \* calls of preprocess_image
    nRecog,          \* calls of the recognizer
    failStage,       \* stage whose library call raised
    failCause,       \* str(e) of that exception
    configured,      \* Config.OCR_ENGINE when the processor was constructed
    imageSteps,      \* the statements the image in hand went through
    recogCalls       \* the recognizer calls of this call, in order: what
                     \* the argument went through and which recognizer ran

\* preprocess_image and _deskew_image, taken alone
VARIABLES
    entry,           \* the function that was called: preprocess_image or
                     \* _deskew_image
    ipc,             \* position inside that function
    src,             \* the argument of the call
    img,             \* the image the next statement works on
    nApply,          \* preprocess_image calls chained on one image so far
    deskewIn,        \* the argument of _deskew_image
    rectCalls,       \* calls of cv2.minAreaRect
    rawAngle,        \* cv2.minAreaRect(coords)[-1], in tenths of a degree
    angle,           \* the local `angle` after the if / else
    rotated          \* cv2.warpAffine was called

imgVars == << entry, ipc, src, img, nApply, deskewIn, rectCalls, rawAngle,
              angle, rotated >>

\* process_uploaded_files, one batch at a time
VARIABLES
    batch,           \* uploaded_files
    bidx,            \* idx + 1 of the `for` loop
    bpc,             \* position inside the loop body
    batch_results,   \* the local list `results`
    extracted_text,  \* the local `extracted_text`
    github_url,      \* the local `github_url`
    attempted,       \* the idx + 1 of every iteration that was entered
    raisedAt,        \* every exception raised inside the try: where and what
    events           \* what the iterations did, in order: OCR returns, AI
                     \* returns, uploads, records created, audit entries
                     \* written, and the length of `results` at each end

batchVars == << batch, bidx, bpc, batch_results, extracted_text,
                github_url,
                attempted, raisedAt, events >>

\* the Streamlit sessions of one server process and their OCR processors
VARIABLES
    services_initialized,  \* st.session_state.services_initialized
    ocr_processor,         \* st.session_state.ocr_processor
    standalone,            \* the last result of a direct get_ocr_processor()
    readerLoads,           \* easyocr.Reader objects the sessions and the
                           \* direct calls constructed so far
    readersUsed,           \* the readers that recognition calls ran on
    runs,                  \* script runs (calls of main) of each session
    nInit,                 \* times each session entered the try of
                           \* initialize_services
    firstFlag,             \* the first value each session gave the flag
    reached                \* main of the session went past the check of
                           \* services_initialized, to the page sections

appHist == << runs, nInit, firstFlag, reached >>

appVars == << services_initialized, ocr_processor, standalone, readerLoads,
              readersUsed, appHist >>

\* the state of everything but the process_document call
outerVars == << imgVars, batchVars, appVars >>

pipeVars == << OCR_ENGINE, easyocr_reader, pc, fileName, filePos, text,
               nImages, pageIdx, result, nativeText, nativeFailed, path,
               ocrTexts, engineOuts,
               nRead, nOpen, nNative, nRaster, nPre, nRecog, failStage,
               failCause, configured, imageSteps, recogCalls >>

vars == << pipeVars, outerVars >>

\* the state the image functions leave alone
notImage == << pipeVars, batchVars, appVars >>

cfgVars  == << OCR_ENGINE, easyocr_reader, configured >>
stepVars == << imageSteps, recogCalls >>
histVars == << nativeText, nativeFailed, path, ocrTexts, engineOuts >>
callVars == << nRead, nOpen, nNative, nRaster, nPre, nRecog >>
failVars == << failStage, failCause >>

NoResult    == [kind |-> "none",   exc |-> "none", val |-> <<>>]
Return(t)   == [kind |-> "return", exc |-> "none", val |-> t]
Raise(e, m) == [kind |-> "raise",  exc |-> e,      val |-> m]

\* ------------------------------------------------------- code, as operators
\* process_document: the if / elif / else on the lower-cased name
Dispatch(filename) ==
    IF endswith(filename, EXT_PDF) THEN "pdf"
    ELSE IF \/ endswith(filename, EXT_JPG)
            \/ endswith(filename, EXT_JPEG)
            \/ endswith(filename, EXT_PNG) THEN "image"
    ELSE "unsupported"

\* f"Unsupported file type: {filename}"
UnsupportedError(filename) == <<"Unsupported file type: ">> \o filename

\* f"Error extracting text from image: {str(e)}"
ImageError(m) == <<"Error extracting text from image: ">> \o m

\* f"Error processing PDF with OCR: {str(e)}"
OcrPhaseError(m) == <<"Error processing PDF with OCR: ">> \o m

\* f"Error extracting text from PDF: {str(e)}"
PdfError(m) == <<"Error extracting text from PDF: ">> \o m

\* type(e) of the exception a library raised with this str(e): the first
\* cause is a ValueError, the second an OSError, both subclasses of Exception
CauseType(cause) == IF cause = "cause A" THEN "ValueError" ELSE "OSError"

\* an image handler that catches OSError only, so that a ValueError of a
\* library leaves extract_text_from_image as it is
ImageExcept_os_only(cause) ==
    [pc |-> "done",
     result |-> IF CauseType(cause) = "OSError"
                THEN Raise("Exception", ImageError(<<cause>>))
                ELSE Raise(CauseType(cause), <<cause>>)]

\* an image handler that reports a failure as a blank page
ImageExcept_blank(cause) ==
    [pc |-> "done", result |-> Return(<<>>)]

\* an image handler that loses the cause
ImageExcept_no_cause(cause) ==
    [pc |-> "done", result |-> Raise("Exception", ImageError(<<>>))]

\* extract_text_from_image: except Exception as e: raise Exception(...)
ImageExcept(cause) ==
    [pc |-> "done", result |-> Raise("Exception", ImageError(<<cause>>))]

\* a native phase that lets the parse error out
NativeExcept_propagate(cause) ==
    [pc |-> "done", result |-> Raise("Exception", PdfError(<<cause>>))]

\* extract_text_from_pdf, native phase: except Exception: pass
NativeExcept(cause) ==
    [pc |-> "pdf_threshold", result |-> NoResult]

\* an OCR phase that hands back what it has so far
OcrExcept_partial(cause, t) ==
    [pc |-> "done", result |-> Return(strip(t))]

\* an OCR phase that goes back to the page loop after a failure
OcrExcept_retry(cause, t) ==
    [pc |-> "pdf_ocr_page", result |-> NoResult]

\* extract_text_from_pdf, OCR phase: the inner raise, wrapped again by the
\* outer except
OcrExcept(cause, t) ==
    [pc |-> "done",
     result |-> Raise("Exception", PdfError(OcrPhaseError(<<cause>>)))]

\* pdf_file.read(): everything up to the end of the file is consumed
read(pos) == "end"

\* a seek that leaves the position where it is
seek_noop(pos, offset) == pos

\* pdf_file.seek(offset)
seek(pos, offset) == IF offset = 0 THEN "start" ELSE "moved"

\* extract_text_from_pdf: pdf_file.read() raising reaches the outer except
ReadExcept(cause) ==
    [pc |-> "done", result |-> Raise("Exception", PdfError(<<cause>>))]

\* a threshold that is off by one
NeedsOcr_inclusive(t) == Len(strip(t)) <= OCR_THRESHOLD

\* if len(text.strip()) < 50
NeedsOcr(t) == Len(strip(t)) < OCR_THRESHOLD

\* if page_text.strip(): text += page_text + "\n"
NativeAppend(t, page_text) ==
    IF strip(page_text) # <<>> THEN t \o page_text \o <<"\n">> ELSE t

\* an accumulation that drops the page separator
OcrAppend_no_newline(t, page_text) == t \o page_text

\* text += page_text + "\n"
OcrAppend(t, page_text) == t \o page_text \o <<"\n">>

\* a choice that takes every engine but 'tesseract' for the neural one
Variant_not_tesseract(engine) ==
    IF engine # "tesseract" THEN "easyocr_reader.readtext"
    ELSE "pytesseract.image_to_string"

\* the recognizer the if / else on self.config.OCR_ENGINE calls
Variant(engine) ==
    IF engine = "easyocr" THEN "easyocr_reader.readtext"
    ELSE "pytesseract.image_to_string"

\* the raw outputs the configured engine can give
RecognizerOutputs(engine) ==
    IF Variant(engine) = "easyocr_reader.readtext" THEN EasyResults
    ELSE TessTexts

\* a join that puts nothing between the fragments
JoinFragments_no_space(results) ==
    join(<<>>, [i \in 1..Len(results) |-> results[i][2]])

\* ' '.join([result[1] for result in results])   (result[1] is the 2nd item)
JoinFragments(results) ==
    join(<<" ">>, [i \in 1..Len(results) |-> results[i][2]])

\* the if / else on self.config.OCR_ENGINE around the recognizer call
Recognize(engine, out) ==
    IF Variant(engine) = "easyocr_reader.readtext" THEN JoinFragments(out)
    ELSE out

\* a preprocess_image that denoises before it deskews
PreprocessSteps_denoise_first(isPil) ==
    (IF isPil THEN <<"cvtColor RGB2BGR">> ELSE <<>>) \o
    <<"cvtColor BGR2GRAY", "GaussianBlur", "adaptiveThreshold",
      "medianBlur", "_deskew_image">>

\* the statements of preprocess_image, in the order it runs them
PreprocessSteps(isPil) ==
    (IF isPil THEN <<"cvtColor RGB2BGR">> ELSE <<>>) \o
    <<"cvtColor BGR2GRAY", "GaussianBlur", "adaptiveThreshold",
      "_deskew_image", "medianBlur">>

\* one recognizer call: readtext(processed_image) or
\* image_to_string(processed_image, ...)
RecogCall(steps, engine) == [steps |-> steps, variant |-> Variant(engine)]

\* position of the `for image in images` loop after page i of n
AfterPage(i, n) == IF i < n THEN "pdf_ocr_page" ELSE "pdf_return"

\* ------------------------------------------------------------------ images
\* An image is its container (a PIL image or a numpy array), its channel
\* count, its size and its samples row by row; `known` is FALSE once the
\* samples went through a resampling whose values are not followed here.
Image(k, c, width, height, samples) ==
    [kind |-> k, ch |-> c, w |-> width, h |-> height,
     known |-> TRUE, px |-> samples]

NoImage == [kind |-> "none", ch |-> 0, w |-> 0, h |-> 0,
            known |-> TRUE, px |-> <<>>]

WHITE == 255
BLACK == 0

\* sizes and sample patterns of the pages and images handed in
Sizes == { <<1, 1>>, <<3, 2>>, <<2, 3>> }
Samples(n) ==
    { Rep(WHITE, n), Rep(BLACK, n),
      [i \in 1..n |-> IF i = 1 THEN BLACK ELSE WHITE] }

\* PIL modes by the channel count numpy gives them: RGB 3, RGBA 4, L and P 1
PilChannels == {1, 3, 4}

\* what Image.open or convert_from_bytes can hand to preprocess_image
PilImages ==
    UNION { { Image("pil", c, sz[1], sz[2], p) :
                p \in Samples(sz[1] * sz[2]) } :
            c \in PilChannels, sz \in Sizes }

\* a BGR array handed to preprocess_image directly
ArrayImages ==
    { Image("ndarray", 3, sz[1], sz[2], p) :
        sz \in {<<3, 2>>}, p \in Samples(6) }

ImageInputs == PilImages \cup ArrayImages

\* every single-channel array of 0 / 255 samples of the given size
BinaryImages(width, height) ==
    { Image("ndarray", 1, width, height, p) :
        p \in [1..(width * height) -> {BLACK, WHITE}] }

\* all samples are known and equal
Uniform(im) ==
    im.known /\ \A i, j \in 1..Len(im.px) : im.px[i] = im.px[j]

\* the samples after a filter that mixes neighbours: a flat image stays as it
\* is, anything else is not followed
Resampled(im) ==
    IF Uniform(im) THEN im ELSE [im EXCEPT !.known = FALSE, !.px = <<>>]

\* cv2.cvtColor accepts 3 or 4 channels for RGB2BGR and for BGR2GRAY
CvtAccepts(im) == im.ch \in {3, 4}

\* cv2.cvtColor(np.array(image), cv2.COLOR_RGB2BGR)
RGB2BGR(im) == [im EXCEPT !.kind = "ndarray", !.ch = 3]

\* cv2.cvtColor(image, cv2.COLOR_BGR2GRAY)
BGR2GRAY(im) == [im EXCEPT !.kind = "ndarray", !.ch = 1]

\* cv2.GaussianBlur(gray, (5, 5), 0)
GaussianBlur(im) == Resampled(im)

\* cv2.adaptiveThreshold(..., ADAPTIVE_THRESH_GAUSSIAN_C, THRESH_BINARY, 11, 2):
\* a sample becomes 255 when it exceeds its neighbourhood mean minus 2.  A
\* flat image comes out all 255; in any image the largest sample exceeds its
\* mean minus 2, so at least one sample comes out 255.
AdaptiveThreshold(im) ==
    IF Uniform(im)
    THEN { [im EXCEPT !.px = Rep(WHITE, im.w * im.h)] }
    ELSE { t \in BinaryImages(im.w, im.h) :
             \E i \in 1..Len(t.px) : t.px[i] > 0 }

\* np.column_stack(np.where(image > 0)): the positions of non-zero samples
Coords(im) == { i \in 1..Len(im.px) : im.px[i] > 0 }

\* a test for emptiness that never sees an empty set
CoordsEmpty_never(coords) == FALSE

\* if len(coords) == 0
CoordsEmpty(coords) == Cardinality(coords) = 0

Row(i, width) == (i - 1) \div width
Col(i, width) == (i - 1) % width

\* the positions fill their bounding box (one point, a line, a full block)
IsBlock(coords, width) ==
    \A i, j \in coords :
        \E k \in coords : Row(k, width) = Row(i, width)
                          /\ Col(k, width) = Col(j, width)

\* angles, in tenths of a degree
QUARTER_TURN == 900
HALF_QUARTER == 450
MIN_SKEW == 5

\* Angles cv2.minAreaRect can report: OpenCV before 4.5.1 reports them in
\* [-90, 0), OpenCV from 4.5.1 on in (0, 90]; the repository pins no version.
RawAngles ==
    { -900, -895, -890, -451, -450, -300, -6, -5, 0, 300, 900 }

\* the angles an upright rectangle can get: -90 or -0.0 before 4.5.1, 90 after
UprightAngles == { -900, 0, 900 }

\* cv2.minAreaRect(coords)[-1]: a single point gets a rectangle of size zero
\* and angle 0, points that fill an upright box get an upright rectangle
MinAreaRectAngles(coords, width) ==
    IF Cardinality(coords) = 1 THEN {0}
    ELSE IF IsBlock(coords, width) THEN UprightAngles
    ELSE RawAngles

\* an angle rule without the fold of the steep angles
EffectiveAngle_no_fold(raw) == -raw

\* a normalisation whose comparison includes -45
EffectiveAngle_inclusive(raw) ==
    IF raw <= -HALF_QUARTER THEN -(QUARTER_TURN + raw) ELSE -raw

\* if angle < -45: angle = -(90 + angle) else: angle = -angle
EffectiveAngle(raw) ==
    IF raw < -HALF_QUARTER THEN -(QUARTER_TURN + raw) ELSE -raw

Abs(x) == IF x < 0 THEN -x ELSE x

\* if abs(angle) > 0.5
Significant(a) == Abs(a) > MIN_SKEW

\* a rotation onto a canvas with the two sizes exchanged
WarpAffine_transposed(im, a) ==
    [Resampled(im) EXCEPT !.w = im.h, !.h = im.w]

\* cv2.warpAffine(image, M, (w, h), flags=INTER_CUBIC,
\*                borderMode=BORDER_REPLICATE) with (h, w) = image.shape[:2]
WarpAffine(im, a) ==
    [Resampled(im) EXCEPT !.w = im.w, !.h = im.h]

\* cv2.medianBlur(deskewed, 3)
MedianBlur(im) == Resampled(im)

\* ------------------------------------------------------------------ batch
\* Config.MAX_FILE_SIZE_MB, the default of the environment variable
MAX_FILE_SIZE_MB == 10

\* max_size = Config.MAX_FILE_SIZE_MB * 1024 * 1024
max_size == MAX_FILE_SIZE_MB * 1024 * 1024

\* Largest number of files in one batch.
MaxFiles == 3

\* an uploaded file: its name and len(uploaded_file.getvalue())
Upload(name, size) == [name |-> name, size |-> size]

\* The files a batch is made of: a scanned PDF at the size limit, a photo
\* one byte above it and a document of an unsupported type.
UploadedFiles ==
    { Upload(ScanPDF, max_size), Upload(PhotoJPG, max_size + 1),
      Upload(DocDocx, 1) }

\* every batch the button can be pressed on
Batches == UNION { [1..n -> UploadedFiles] : n \in 1..MaxFiles }

\* if file_size > max_size
TooLarge(f) == f.size > max_size

\* What st.session_state.ocr_processor.process_document(uploaded_file) can
\* do for a file of this name: return stripped text or raise.
DocumentOutcomes(name) ==
    LET kind == Dispatch(lower(name))
    IN  IF kind = "unsupported"
        THEN { Raise("ValueError", UnsupportedError(lower(name))) }
        ELSE { Return(<<>>), Return(<<"x">>) } \cup
             ( IF kind = "image"
               THEN { ImageExcept(c).result : c \in Causes }
               ELSE { OcrExcept(c, <<>>).result : c \in Causes } )

\* ai_utils.process_document_text: the two except clauses
AiApiError(m) == <<"API request failed: ">> \o m
AiError(m)    == <<"Error processing document with AI: ">> \o m

\* What process_document_text can do: return a dict or raise.
AiOutcomes ==
    { Return(<<"ai_results">>),
      Raise("Exception", AiApiError(<<"timeout">>)),
      Raise("Exception", AiError(<<"no choices">>)) }

\* github_storage.upload_file returns the download URL, or None: its own
\* try / except lets nothing out
NoUrl == "None"
UploadOutcomes == { "https://raw/doc", NoUrl }

\* a storage step that hands the database whatever upload_file returned
UrlOrFailed_keep(url) == url

\* if not github_url: github_url = "Upload failed"
UrlOrFailed(url) == IF url = NoUrl THEN "Upload failed" ELSE url

\* db_manager.create_document and db_manager.log_action: try / finally with
\* no except, so a database error reaches the caller as it is
DbOutcomes ==
    { Return(<<"row">>), Raise("Exception", <<"database is locked">>) }

\* one step of an iteration, as it is observed from outside
Event(ev, idx, url, t, n) ==
    [ev |-> ev, idx |-> idx, url |-> url, text |-> t, n |-> n]

\* {'filename': ..., 'status': 'success', ...}
SuccessRecord(f) == [filename |-> f.name, status |-> "success"]

\* {'filename': ..., 'status': 'error', 'error': str(e)}
ErrorRecord(f, m) == [filename |-> f.name, status |-> "error", error |-> m]

\* a handler that records the failure and lets the exception out of the loop
BatchExcept_abort(res, f, m) ==
    [results |-> Append(res, ErrorRecord(f, m)), bpc |-> "raised"]

\* except Exception as e: results.append({...}), then the next iteration
BatchExcept(res, f, m) ==
    [results |-> Append(res, ErrorRecord(f, m)), bpc |-> "next"]

\* the `for` loop after iteration i of n
AfterFile(i, n) == IF i < n THEN "top" ELSE "done"

BatchIdle ==
    /\ batch = <<>>
    /\ bidx = 0
    /\ bpc = "idle"
    /\ batch_results = <<>>
    /\ extracted_text = <<>>
    /\ github_url = NoUrl
    /\ attempted = <<>>
    /\ raisedAt = <<>>
    /\ events = <<>>

\* --------------------------------------------------------------- sessions
\* Largest number of browser sessions one server process serves.
MaxSessions == 3

\* Largest number of easyocr.Reader objects constructed.
MaxLoads == 3

Sessions == 1..MaxSessions

\* no OCRProcessor object
NoProcessor == [built |-> FALSE, reader |-> 0]

\* OCRProcessor(): the object owns reader number loads + 1 when the engine
\* is 'easyocr' and has no reader otherwise (reader 0)
OCRProcessor(engine, loads) ==
    [built |-> TRUE, reader |-> IF engine = "easyocr" THEN loads + 1 ELSE 0]

\* the number of readers constructed after OCRProcessor()
LoadsAfter(engine, loads) ==
    IF engine = "easyocr" THEN loads + 1 ELSE loads

\* def get_ocr_processor(): return OCRProcessor()
get_ocr_processor(engine, loads) == OCRProcessor(engine, loads)

\* 'services_initialized' not in st.session_state
NotInState == "absent"

\* Largest number of script runs of one session.
MaxRuns == 2

\* a guard that initialises again until an initialisation succeeded
NeedsInit_until_success(flag) == flag # "True"

\* if 'services_initialized' not in st.session_state:
NeedsInit(flag) == flag = NotInState

\* st.session_state.get('services_initialized', False)
FlagOrFalse(flag) == flag = "True"

AppIdle ==
    /\ services_initialized = [s \in Sessions |-> NotInState]
    /\ ocr_processor = [s \in Sessions |-> NoProcessor]
    /\ standalone = NoProcessor
    /\ readerLoads = 0
    /\ readersUsed = {}
    /\ runs = [s \in Sessions |-> 0]
    /\ nInit = [s \in Sessions |-> 0]
    /\ firstFlag = [s \in Sessions |-> NotInState]
    /\ reached = [s \in Sessions |-> FALSE]

\* ------------------------------------------------------------------- Init
ImageIdle ==
    /\ entry = "none"
    /\ ipc = "idle"
    /\ src = NoImage
    /\ img = NoImage
    /\ nApply = 0
    /\ deskewIn = NoImage
    /\ rectCalls = 0
    /\ rawAngle = 0
    /\ angle = 0
    /\ rotated = FALSE

\* OCRProcessor.__init__: the reader is built iff the engine is 'easyocr'
Init ==
    /\ ImageIdle
    /\ BatchIdle
    /\ AppIdle
    /\ OCR_ENGINE \in Engines
    /\ easyocr_reader = (OCR_ENGINE = "easyocr")
    /\ pc = "idle"
    /\ fileName = NoFile
    /\ filePos = "start"
    /\ text = <<>>
    /\ nImages = 0
    /\ pageIdx = 0
    /\ result = NoResult
    /\ nativeText = <<>>
    /\ nativeFailed = FALSE
    /\ path = "none"
    /\ ocrTexts = <<>>
    /\ engineOuts = <<>>
    /\ nRead = 0 /\ nOpen = 0 /\ nNative = 0
    /\ nRaster = 0 /\ nPre = 0 /\ nRecog = 0
    /\ failStage = "none"
    /\ failCause = NoCause
    /\ configured = OCR_ENGINE
    /\ imageSteps = <<>>
    /\ recogCalls = <<>>

\* ---------------------------------------------------------------- actions
\* process_document(file): a fresh call on a fresh file object
ProcessDocument ==
    /\ pc \in {"idle", "done"}
    /\ \E name \in FileNames :
        LET filename == lower(name)
            kind     == Dispatch(filename)
        IN  /\ fileName' = name
            /\ filePos' = "start"
            /\ text' = <<>>
            /\ nImages' = 0
            /\ pageIdx' = 0
            /\ nativeText' = <<>>
            /\ nativeFailed' = FALSE
            /\ ocrTexts' = <<>>
            /\ engineOuts' = <<>>
            /\ nRead' = 0 /\ nOpen' = 0 /\ nNative' = 0
            /\ nRaster' = 0 /\ nPre' = 0 /\ nRecog' = 0
            /\ failStage' = "none"
            /\ failCause' = NoCause
            /\ imageSteps' = <<>>
            /\ recogCalls' = <<>>
            /\ IF kind = "pdf"
               THEN pc' = "pdf_read" /\ result' = NoResult /\ path' = "none"
               ELSE IF kind = "image"
               THEN pc' = "img_open" /\ result' = NoResult /\ path' = "image"
               ELSE /\ pc' = "done"
                    /\ result' = Raise("ValueError", UnsupportedError(filename))
                    /\ path' = "unsupported"
    /\ UNCHANGED << outerVars, cfgVars >>

\* text = ""; pdf_bytes = pdf_file.read(); pdf_file.seek(0)
PdfRead ==
    /\ pc = "pdf_read"
    /\ nRead' = nRead + 1
    /\ \/ /\ text' = <<>>
          /\ filePos' = seek(read(filePos), 0)
          /\ pc' = "pdf_native"
          /\ UNCHANGED << result, failVars >>
       \/ \E c \in Causes :
            /\ pc' = ReadExcept(c).pc
            /\ result' = ReadExcept(c).result
            /\ failStage' = "pdf_read"
            /\ failCause' = c
            /\ UNCHANGED << text, filePos >>
    /\ UNCHANGED << outerVars, cfgVars, stepVars,
                    fileName, nImages, pageIdx, histVars,
                    nOpen, nNative, nRaster, nPre, nRecog >>

\* pdf_reader = PyPDF2.PdfReader(io.BytesIO(pdf_bytes)), inside the inner try
NativeOpen ==
    /\ pc = "pdf_native"
    /\ nNative' = nNative + 1
    /\ \/ /\ pc' = "pdf_native_page"
          /\ pageIdx' = 0
          /\ UNCHANGED << result, nativeFailed >>
       \/ \E c \in Causes :
            /\ pc' = NativeExcept(c).pc
            /\ result' = NativeExcept(c).result
            /\ nativeFailed' = TRUE
            /\ UNCHANGED pageIdx
    /\ UNCHANGED << outerVars, cfgVars, stepVars,
                    fileName, filePos, text, nImages, nativeText,
                    path, ocrTexts, engineOuts, nRead, nOpen, nRaster, nPre,
                    nRecog,
                    failVars >>

\* one turn of `for page in pdf_reader.pages`
NativePage ==
    /\ pc = "pdf_native_page"
    /\ pageIdx < MaxPages
    /\ \/ \E page_text \in NativePageTexts :
            /\ text' = NativeAppend(text, page_text)
            /\ pageIdx' = pageIdx + 1
            /\ UNCHANGED << pc, result, nativeFailed >>
       \/ \E c \in Causes :
            /\ pc' = NativeExcept(c).pc
            /\ result' = NativeExcept(c).result
            /\ nativeFailed' = TRUE
            /\ UNCHANGED << text, pageIdx >>
    /\ UNCHANGED << outerVars, cfgVars, stepVars,
                    fileName, filePos, nImages, nativeText, path,
                    ocrTexts, engineOuts, callVars, failVars >>

\* the pages are exhausted: the loop and the inner try end
NativeEnd ==
    /\ pc = "pdf_native_page"
    /\ pc' = "pdf_threshold"
    /\ UNCHANGED << outerVars, cfgVars, stepVars,
                    fileName, filePos, text, nImages, pageIdx,
                    result, histVars, callVars, failVars >>

\* if len(text.strip()) < 50:
ThresholdCheck ==
    /\ pc = "pdf_threshold"
    /\ nativeText' = text
    /\ IF NeedsOcr(text)
       THEN pc' = "pdf_raster" /\ path' = "ocr"
       ELSE pc' = "pdf_return" /\ path' = "native"
    /\ UNCHANGED << outerVars, cfgVars, stepVars,
                    fileName, filePos, text, nImages, pageIdx,
                    result, nativeFailed, ocrTexts, engineOuts, callVars,
                    failVars >>

\* images = convert_from_bytes(pdf_bytes, dpi=200)
Rasterize ==
    /\ pc = "pdf_raster"
    /\ nRaster' = nRaster + 1
    /\ \/ \E n \in 0..MaxPages :
            /\ nImages' = n
            /\ pageIdx' = 0
            /\ pc' = AfterPage(0, n)
            /\ UNCHANGED << result, failVars >>
       \/ \E c \in Causes :
            /\ pc' = OcrExcept(c, text).pc
            /\ result' = OcrExcept(c, text).result
            /\ failStage' = "pdf_ocr"
            /\ failCause' = c
            /\ UNCHANGED << nImages, pageIdx >>
    /\ UNCHANGED << outerVars, cfgVars, stepVars,
                    fileName, filePos, text, histVars,
                    nRead, nOpen, nNative, nPre, nRecog >>

\* one turn of `for image in images`: preprocess, recognize, accumulate
OcrPage ==
    /\ pc = "pdf_ocr_page"
    /\ pageIdx < nImages
    /\ nPre' = nPre + 1
    /\ \/ \E c \in Causes :          \* preprocess_image raises
            /\ pc' = OcrExcept(c, text).pc
            /\ result' = OcrExcept(c, text).result
            /\ failStage' = "pdf_ocr"
            /\ failCause' = c
            /\ UNCHANGED << text, pageIdx, ocrTexts, engineOuts, nRecog,
                            stepVars >>
       \/ \E c \in Causes :          \* the recognizer raises
            /\ nRecog' = nRecog + 1
            /\ imageSteps' = PreprocessSteps(TRUE)
            /\ recogCalls' = Append(recogCalls,
                    RecogCall(PreprocessSteps(TRUE), OCR_ENGINE))
            /\ pc' = OcrExcept(c, text).pc
            /\ result' = OcrExcept(c, text).result
            /\ failStage' = "pdf_ocr"
            /\ failCause' = c
            /\ UNCHANGED << text, pageIdx, ocrTexts, engineOuts >>
       \/ \E out \in RecognizerOutputs(OCR_ENGINE) :
            LET page_text == Recognize(OCR_ENGINE, out)
            IN  /\ nRecog' = nRecog + 1
                /\ imageSteps' = PreprocessSteps(TRUE)
                /\ recogCalls' = Append(recogCalls,
                        RecogCall(PreprocessSteps(TRUE), OCR_ENGINE))
                /\ text' = OcrAppend(text, page_text)
                /\ ocrTexts' = Append(ocrTexts, page_text)
                /\ engineOuts' = Append(engineOuts, out)
                /\ pageIdx' = pageIdx + 1
                /\ pc' = AfterPage(pageIdx + 1, nImages)
                /\ UNCHANGED << result, failVars >>
    /\ UNCHANGED << outerVars, cfgVars,
                    fileName, filePos, nImages, nativeText,
                    nativeFailed, path, nRead, nOpen, nNative, nRaster >>

\* return text.strip()   (extract_text_from_pdf)
PdfReturn ==
    /\ pc = "pdf_return"
    /\ result' = Return(strip(text))
    /\ pc' = "done"
    /\ UNCHANGED << outerVars, cfgVars, stepVars,
                    fileName, filePos, text, nImages, pageIdx,
                    histVars, callVars, failVars >>

\* image = Image.open(image_file)
ImgOpen ==
    /\ pc = "img_open"
    /\ nOpen' = nOpen + 1
    /\ filePos' = "moved"
    /\ \/ /\ pc' = "img_pre"
          /\ UNCHANGED << result, failVars >>
       \/ \E c \in Causes :
            /\ pc' = ImageExcept(c).pc
            /\ result' = ImageExcept(c).result
            /\ failStage' = "image"
            /\ failCause' = c
    /\ UNCHANGED << outerVars, cfgVars, stepVars,
                    fileName, text, nImages, pageIdx, histVars,
                    nRead, nNative, nRaster, nPre, nRecog >>

\* processed_image = self.preprocess_image(image)
ImgPreprocess ==
    /\ pc = "img_pre"
    /\ nPre' = nPre + 1
    /\ \/ /\ pc' = "img_recog"
          /\ imageSteps' = PreprocessSteps(TRUE)
          /\ UNCHANGED << result, failVars >>
       \/ \E c \in Causes :
            /\ pc' = ImageExcept(c).pc
            /\ result' = ImageExcept(c).result
            /\ failStage' = "image"
            /\ failCause' = c
            /\ UNCHANGED imageSteps
    /\ UNCHANGED << outerVars, cfgVars, recogCalls,
                    fileName, filePos, text, nImages, pageIdx,
                    histVars, nRead, nOpen, nNative, nRaster, nRecog >>

\* the recognizer call and return text.strip()   (extract_text_from_image)
ImgRecognize ==
    /\ pc = "img_recog"
    /\ nRecog' = nRecog + 1
    /\ recogCalls' = Append(recogCalls, RecogCall(imageSteps, OCR_ENGINE))
    /\ \/ \E out \in RecognizerOutputs(OCR_ENGINE) :
            LET t == Recognize(OCR_ENGINE, out)
            IN  /\ text' = t
                /\ ocrTexts' = Append(ocrTexts, t)
                /\ engineOuts' = Append(engineOuts, out)
                /\ result' = Return(strip(t))
                /\ pc' = "done"
                /\ UNCHANGED failVars
       \/ \E c \in Causes :
            /\ pc' = ImageExcept(c).pc
            /\ result' = ImageExcept(c).result
            /\ failStage' = "image"
            /\ failCause' = c
            /\ UNCHANGED << text, ocrTexts, engineOuts >>
    /\ UNCHANGED << outerVars, cfgVars, imageSteps,
                    fileName, filePos, nImages, pageIdx, nativeText,
                    nativeFailed, path, nRead, nOpen, nNative, nRaster, nPre >>

Next ==
    \/ ProcessDocument
    \/ PdfRead
    \/ NativeOpen
    \/ NativePage
    \/ NativeEnd
    \/ ThresholdCheck
    \/ Rasterize
    \/ OcrPage
    \/ PdfReturn
    \/ ImgOpen
    \/ ImgPreprocess
    \/ ImgRecognize

Spec == Init /\ [][Next]_vars

\* --------------------------------------- preprocess_image, _deskew_image
\* Largest number of preprocess_image calls chained on one image.
MaxApply == 2

\* cv2.error raised by a statement of preprocess_image
ImageFails ==
    /\ ipc' = "error"
    /\ UNCHANGED << entry, src, img, nApply, deskewIn, rectCalls, rawAngle,
                    angle, rotated >>

\* preprocess_image(image) on an image handed in from outside
PreprocessCall ==
    /\ ipc \in {"idle", "done", "error"}
    /\ \E image \in ImageInputs :
        /\ src' = image
        /\ img' = image
    /\ entry' = "preprocess_image"
    /\ ipc' = "start"
    /\ nApply' = 1
    /\ deskewIn' = NoImage
    /\ rectCalls' = 0 /\ rawAngle' = 0 /\ angle' = 0 /\ rotated' = FALSE
    /\ UNCHANGED notImage

\* preprocess_image(preprocess_image(I)): the result is handed in again
PreprocessAgain ==
    /\ ipc = "done"
    /\ entry = "preprocess_image"
    /\ nApply < MaxApply
    /\ src' = img
    /\ ipc' = "start"
    /\ nApply' = nApply + 1
    /\ deskewIn' = NoImage
    /\ rectCalls' = 0 /\ rawAngle' = 0 /\ angle' = 0 /\ rotated' = FALSE
    /\ UNCHANGED << notImage, entry, img >>

\* if isinstance(image, Image.Image):
\*     image = cv2.cvtColor(np.array(image), cv2.COLOR_RGB2BGR)
ToOpenCv ==
    /\ ipc = "start"
    /\ IF img.kind = "pil"
       THEN IF CvtAccepts(img)
            THEN /\ img' = RGB2BGR(img)
                 /\ ipc' = "bgr"
                 /\ UNCHANGED << entry, src, nApply, deskewIn, rectCalls,
                                 rawAngle, angle, rotated >>
            ELSE ImageFails
       ELSE /\ ipc' = "bgr"
            /\ UNCHANGED << entry, src, img, nApply, deskewIn, rectCalls,
                            rawAngle, angle, rotated >>
    /\ UNCHANGED notImage

\* gray = cv2.cvtColor(image, cv2.COLOR_BGR2GRAY)
ToGray ==
    /\ ipc = "bgr"
    /\ IF CvtAccepts(img)
       THEN /\ img' = BGR2GRAY(img)
            /\ ipc' = "gray"
            /\ UNCHANGED << entry, src, nApply, deskewIn, rectCalls, rawAngle,
                            angle, rotated >>
       ELSE ImageFails
    /\ UNCHANGED notImage

\* blurred = cv2.GaussianBlur(gray, (5, 5), 0)
Blur ==
    /\ ipc = "gray"
    /\ img' = GaussianBlur(img)
    /\ ipc' = "blurred"
    /\ UNCHANGED << notImage, entry, src, nApply, deskewIn, rectCalls,
                    rawAngle, angle, rotated >>

\* thresh = cv2.adaptiveThreshold(blurred, 255, ...)
Threshold ==
    /\ ipc = "blurred"
    /\ img' \in AdaptiveThreshold(img)
    /\ ipc' = "thresh"
    /\ UNCHANGED << notImage, entry, src, nApply, deskewIn, rectCalls,
                    rawAngle, angle, rotated >>

\* _deskew_image(image) called on its own with a single-channel array
DeskewCall ==
    /\ ipc \in {"idle", "done", "error"}
    /\ \E sz \in Sizes :
        \E image \in BinaryImages(sz[1], sz[2]) :
            /\ src' = image
            /\ img' = image
    /\ entry' = "_deskew_image"
    /\ ipc' = "thresh"
    /\ nApply' = 0
    /\ deskewIn' = NoImage
    /\ rectCalls' = 0 /\ rawAngle' = 0 /\ angle' = 0 /\ rotated' = FALSE
    /\ UNCHANGED notImage

\* where _deskew_image returns to
AfterDeskew == IF entry = "preprocess_image" THEN "deskewed" ELSE "done"

\* _deskew_image(thresh): the whole function
Deskew ==
    /\ ipc = "thresh"
    /\ deskewIn' = img
    /\ LET coords == Coords(img)
       IN  IF CoordsEmpty(coords)
           THEN /\ ipc' = AfterDeskew
                /\ UNCHANGED << img, rectCalls, rawAngle, angle, rotated >>
           ELSE /\ rectCalls' = rectCalls + 1
                /\ IF coords = {}
                   THEN \* cv2.minAreaRect raises on an empty point set
                        /\ ipc' = "error"
                        /\ UNCHANGED << img, rawAngle, angle, rotated >>
                   ELSE \E raw \in MinAreaRectAngles(coords, img.w) :
                        /\ rawAngle' = raw
                        /\ angle' = EffectiveAngle(raw)
                        /\ ipc' = AfterDeskew
                        /\ IF Significant(EffectiveAngle(raw))
                           THEN /\ img' = WarpAffine(img, EffectiveAngle(raw))
                                /\ rotated' = TRUE
                           ELSE UNCHANGED << img, rotated >>
    /\ UNCHANGED << notImage, entry, src, nApply >>

\* denoised = cv2.medianBlur(deskewed, 3); return denoised
Median ==
    /\ ipc = "deskewed"
    /\ img' = MedianBlur(img)
    /\ ipc' = "done"
    /\ UNCHANGED << notImage, entry, src, nApply, deskewIn, rectCalls,
                    rawAngle, angle, rotated >>

NextImage ==
    \/ PreprocessCall
    \/ PreprocessAgain
    \/ ToOpenCv
    \/ ToGray
    \/ Blur
    \/ Threshold
    \/ DeskewCall
    \/ Deskew
    \/ Median

SpecImage == Init /\ [][NextImage]_vars

\* ------------------------------------------------ process_uploaded_files
\* the state process_uploaded_files leaves alone
notBatch == << pipeVars, imgVars, appVars >>

\* the exception e raised at `stage` of iteration bidx reaches the handler
BatchRaise(stage, m) ==
    LET h == BatchExcept(batch_results, batch[bidx], m)
    IN  /\ raisedAt' = Append(raisedAt,
                              [idx |-> bidx, stage |-> stage, msg |-> m])
        /\ batch_results' = h.results
        /\ bpc' = h.bpc
        /\ UNCHANGED events

\* process_uploaded_files(uploaded_files, ...): results = [], the loop starts.
\* Everything the function works on is local to the call, so one call stands
\* for each of them.
BatchCall ==
    /\ bpc = "idle"
    /\ \E files \in Batches : batch' = files
    /\ bidx' = 1
    /\ bpc' = "top"
    /\ batch_results' = <<>>
    /\ attempted' = <<>>
    /\ raisedAt' = <<>>
    /\ events' = <<>>
    /\ UNCHANGED << notBatch, extracted_text, github_url >>

\* the size test: an oversized file is skipped with `continue`
SizeCheck ==
    /\ bpc = "top"
    /\ attempted' = Append(attempted, bidx)
    /\ bpc' = IF TooLarge(batch[bidx]) THEN "next" ELSE "ocr"
    /\ UNCHANGED << notBatch, batch, bidx, batch_results, extracted_text,
                    github_url, raisedAt, events >>

\* extracted_text = ...process_document(uploaded_file), and the blank test
BatchOcr ==
    /\ bpc = "ocr"
    /\ \E out \in DocumentOutcomes(batch[bidx].name) :
        IF out.kind = "raise"
        THEN /\ BatchRaise("ocr", out.val)
             /\ UNCHANGED extracted_text
        ELSE /\ extracted_text' = out.val
             /\ events' = Append(events,
                                 Event("ocr", bidx, NoUrl, out.val, 0))
             /\ bpc' = IF strip(out.val) = <<>> THEN "next" ELSE "ai"
             /\ UNCHANGED << batch_results, raisedAt >>
    /\ UNCHANGED << notBatch, batch, bidx, github_url, attempted >>

\* ai_results = ...process_document_text(extracted_text)
BatchAi ==
    /\ bpc = "ai"
    /\ \E out \in AiOutcomes :
        IF out.kind = "raise"
        THEN BatchRaise("ai", out.val)
        ELSE /\ bpc' = "upload"
             /\ events' = Append(events,
                                 Event("ai", bidx, NoUrl, <<>>, 0))
             /\ UNCHANGED << batch_results, raisedAt >>
    /\ UNCHANGED << notBatch, batch, bidx, extracted_text, github_url,
                    attempted >>

\* github_url = ...upload_file(...), "Upload failed" for None
BatchUpload ==
    /\ bpc = "upload"
    /\ \E url \in UploadOutcomes :
        /\ github_url' = UrlOrFailed(url)
        /\ events' = Append(events, Event("upload", bidx, url, <<>>, 0))
    /\ bpc' = "db"
    /\ UNCHANGED << notBatch, batch, bidx, batch_results, extracted_text,
                    attempted, raisedAt >>

\* document = ...create_document(...)
BatchCreate ==
    /\ bpc = "db"
    /\ \E out \in DbOutcomes :
        IF out.kind = "raise"
        THEN BatchRaise("create_document", out.val)
        ELSE /\ bpc' = "log"
             /\ events' = Append(events,
                     Event("created", bidx, github_url, extracted_text, 0))
             /\ UNCHANGED << batch_results, raisedAt >>
    /\ UNCHANGED << notBatch, batch, bidx, extracted_text, github_url,
                    attempted >>

\* ...log_action(document.id, ...), then results.append({... 'success' ...})
BatchLog ==
    /\ bpc = "log"
    /\ \E out \in DbOutcomes :
        IF out.kind = "raise"
        THEN BatchRaise("log_action", out.val)
        ELSE /\ batch_results' =
                    Append(batch_results, SuccessRecord(batch[bidx]))
             /\ events' = Append(events,
                                 Event("logged", bidx, NoUrl, <<>>, 0))
             /\ bpc' = "next"
             /\ UNCHANGED raisedAt
    /\ UNCHANGED << notBatch, batch, bidx, extracted_text, github_url,
                    attempted >>

\* the end of an iteration: the next file, or the end of the loop
BatchNext ==
    /\ bpc = "next"
    /\ bpc' = AfterFile(bidx, Len(batch))
    /\ bidx' = IF bidx < Len(batch) THEN bidx + 1 ELSE bidx
    /\ events' = Append(events,
                        Event("end", bidx, NoUrl, <<>>, Len(batch_results)))
    /\ UNCHANGED << notBatch, batch, batch_results, extracted_text,
                    github_url, attempted, raisedAt >>

NextBatch ==
    \/ BatchCall
    \/ SizeCheck
    \/ BatchOcr
    \/ BatchAi
    \/ BatchUpload
    \/ BatchCreate
    \/ BatchLog
    \/ BatchNext

SpecBatch == Init /\ [][NextBatch]_vars

\* ------------------------------------------- sessions of a server process
\* the state the sessions leave alone
notApp == << pipeVars, imgVars, batchVars >>

\* initialize_services() of session s: it builds the services when the
\* session state has no flag; a later service that fails leaves the OCR
\* processor in the session state and services_initialized False
InitializeServices(s) ==
    IF NeedsInit(services_initialized[s])
    THEN /\ readerLoads < MaxLoads
         /\ nInit' = [nInit EXCEPT ![s] = @ + 1]
         /\ \/ /\ ocr_processor' =
                     [ocr_processor EXCEPT
                         ![s] = get_ocr_processor(OCR_ENGINE, readerLoads)]
               /\ readerLoads' = LoadsAfter(OCR_ENGINE, readerLoads)
               /\ \E ok \in {"True", "False"} :
                     services_initialized' =
                         [services_initialized EXCEPT ![s] = ok]
            \/ /\ services_initialized' =
                     [services_initialized EXCEPT ![s] = "False"]
               /\ UNCHANGED << ocr_processor, readerLoads >>
    ELSE UNCHANGED << services_initialized, ocr_processor, readerLoads,
                      nInit >>

\* main() of session s, one script run: initialize_services(), then the
\* check of the flag; the page sections come only after it
Main ==
    \E s \in Sessions :
        /\ runs[s] < MaxRuns
        /\ runs' = [runs EXCEPT ![s] = @ + 1]
        /\ InitializeServices(s)
        /\ firstFlag' =
              [firstFlag EXCEPT
                 ![s] = IF @ = NotInState THEN services_initialized'[s]
                        ELSE @]
        /\ reached' =
              [reached EXCEPT
                 ![s] = @ \/ FlagOrFalse(services_initialized'[s])]
        /\ UNCHANGED << notApp, standalone, readersUsed >>

\* get_ocr_processor() called directly
GetOcrProcessor ==
    /\ readerLoads < MaxLoads
    /\ standalone' = get_ocr_processor(OCR_ENGINE, readerLoads)
    /\ readerLoads' = LoadsAfter(OCR_ENGINE, readerLoads)
    /\ UNCHANGED << notApp, services_initialized, ocr_processor, readersUsed,
                    appHist >>

\* st.session_state.ocr_processor.process_document(...) of session s, or of
\* the processor a direct call returned: the recognition runs on the reader
\* of that processor
SessionProcessDocument ==
    /\ \E p \in { ocr_processor[s] : s \in
                    { t \in Sessions : services_initialized[t] = "True" } }
              \cup { standalone } :
        /\ p.built
        /\ readersUsed' = readersUsed \cup ({ p.reader } \ { 0 })
    /\ UNCHANGED << notApp, services_initialized, ocr_processor, standalone,
                    readerLoads, appHist >>

NextApp ==
    \/ Main
    \/ GetOcrProcessor
    \/ SessionProcessDocument

SpecApp == Init /\ [][NextApp]_vars

\* ------------------------------------------------- vocabulary of the claims
Min(S) == CHOOSE x \in S : \A y \in S : x <= y
Max(S) == CHOOSE x \in S : \A y \in S : x >= y

\* positions of the characters that are not whitespace
NonWs(s) == {i \in 1..Len(s) : s[i] \notin WS}

\* s without its leading and trailing whitespace, stated by positions
Trim(s) ==
    IF NonWs(s) = {} THEN <<>> ELSE SubSeq(s, Min(NonWs(s)), Max(NonWs(s)))

\* s neither starts nor ends with whitespace
Trimmed(s) == s = <<>> \/ (s[1] \notin WS /\ s[Len(s)] \notin WS)

IsSuffix(t, s) ==
    Len(t) <= Len(s) /\ SubSeq(s, Len(s) - Len(t) + 1, Len(s)) = t

\* t occurs in s as a run of consecutive elements
Contains(s, t) ==
    \E k \in 0..(Len(s) - Len(t)) : SubSeq(s, k + 1, k + Len(t)) = t

PdfPcs == {"pdf_read", "pdf_native", "pdf_native_page", "pdf_threshold",
           "pdf_raster", "pdf_ocr_page", "pdf_return"}
ImgPcs == {"img_open", "img_pre", "img_recog"}
NativePcs == {"pdf_native", "pdf_native_page"}

\* the threshold of extract_text_from_pdf has been evaluated in this call
ThresholdChecked == path \in {"native", "ocr"}

\* ------------------------------------------------------------------ claims
\* C1: once the threshold is evaluated, the OCR phase is entered exactly when
\* the trimmed native text is shorter than 50 characters; on the OCR side
\* rasterization is the next step or has run once; on the native side the
\* trimmed native text is what is returned and neither rasterization,
\* preprocessing nor a recognizer was invoked.
C1_ThresholdDecides ==
    /\ ThresholdChecked => ((Len(Trim(nativeText)) < 50) <=> (path = "ocr"))
    /\ path = "ocr" => (pc = "pdf_raster" /\ nRaster = 0) \/ nRaster = 1
    /\ path = "native" =>
         /\ nRaster = 0 /\ nPre = 0 /\ nRecog = 0
         /\ pc \in {"pdf_return", "done"}
         /\ pc = "done" => result = Return(Trim(nativeText))

\* a native text of exactly 49 trimmed characters was sent to the OCR phase
C1_Witness49 ==
    /\ pc = "done" /\ path = "ocr"
    /\ Len(Trim(nativeText)) = 49 /\ Len(nativeText) > 49
    /\ nRaster = 1

\* a native text of exactly 50 trimmed characters was returned without OCR
C1_Witness50 ==
    /\ pc = "done" /\ path = "native"
    /\ Len(Trim(nativeText)) = 50
    /\ result.kind = "return"

\* C2: every string process_document returns, on the PDF path (native or OCR)
\* and on the image path with either engine, neither starts nor ends with a
\* whitespace character.
C2_ReturnsTrimmed == result.kind = "return" => Trimmed(result.val)

\* an OCR-path text with whitespace on both ends was returned, non-empty
C2_Witness ==
    /\ pc = "done" /\ result.kind = "return" /\ path = "ocr"
    /\ text # <<>> /\ text[1] \in WS /\ text[Len(text)] \in WS
    /\ result.val # <<>>

\* C3: a name that ends in .pdf in any letter case is handled by the PDF path
\* only, one that ends in .jpg, .jpeg or .png by the image path only, and any
\* other name ends at once in the unsupported-type error with the file
\* unread and no parser, preprocessing or recognizer call made.
C3_Dispatch ==
    /\ fileName \in PdfNames =>
         /\ pc \in PdfPcs \cup {"done"}
         /\ path \in {"none", "native", "ocr"}
         /\ nOpen = 0
         /\ result.exc # "ValueError"
    /\ fileName \in ImageNames =>
         /\ pc \in ImgPcs \cup {"done"}
         /\ path = "image"
         /\ nRead = 0 /\ nNative = 0 /\ nRaster = 0
         /\ result.exc # "ValueError"
    /\ fileName \in OtherNames =>
         /\ pc = "done"
         /\ result.kind = "raise" /\ result.exc = "ValueError"
         /\ result.val[1] = "Unsupported file type: "
         /\ filePos = "start"
         /\ nRead = 0 /\ nOpen = 0 /\ nNative = 0
         /\ nRaster = 0 /\ nPre = 0 /\ nRecog = 0

\* scan.PDF went down the PDF path and came back with a result
C3_Witness ==
    /\ fileName = ScanPDF /\ pc = "done"
    /\ result.kind = "return" /\ nRead = 1

\* C4: the unsupported-type error message contains the file's name exactly as
\* the caller supplied it.
C4_ErrorNamesFile ==
    result.exc = "ValueError" => Contains(result.val, fileName)

\* C5: a failure in the native extraction phase (opening the PDF or reading
\* any page) does not reach the caller: control is at the threshold check or
\* beyond it, and an error raised later in the call comes from the OCR phase.
C5_NativeFailureSwallowed ==
    nativeFailed =>
        /\ pc \notin NativePcs
        /\ pc = "pdf_threshold" \/ ThresholdChecked
        /\ result.kind = "raise" => failStage = "pdf_ocr"

\* the native phase failed on a later page and the call still returned text
C5_Witness ==
    /\ nativeFailed /\ pc = "done"
    /\ result.kind = "return" /\ nativeText # <<>>

\* C6: whenever the native phase failed, the OCR fallback is what the
\* threshold check selects.
C6_NativeFailureForcesOcr ==
    (nativeFailed /\ ThresholdChecked) => path = "ocr"

\* C7: when rasterization, preprocessing or recognition fails in the OCR
\* phase the call ends raising: nothing recognized so far and no native text
\* is returned.
C7_NoPartialResult ==
    failStage = "pdf_ocr" =>
        /\ pc = "done"
        /\ result.kind = "raise"
        /\ result.exc = "Exception"

\* the OCR phase failed after a page was recognized over a short native text
C7_Witness ==
    /\ failStage = "pdf_ocr" /\ pc = "done"
    /\ Len(ocrTexts) >= 1 /\ Trim(ocrTexts[1]) # <<>>
    /\ Trim(nativeText) # <<>>

\* C8: when the OCR phase ends without a failure every rendered page was
\* recognized once, and the returned text ends with the page texts in page
\* order joined by newlines (trimmed at the outer ends).
C8_AllPagesInOrder ==
    (pc = "done" /\ path = "ocr" /\ result.kind = "return") =>
        /\ Len(ocrTexts) = nImages
        /\ nRecog = nImages
        /\ IsSuffix(Trim(join(<<"\n">>, ocrTexts)), result.val)

\* a 10-character native layer and three pages that all yielded text
C8_Witness ==
    /\ pc = "done" /\ path = "ocr" /\ result.kind = "return"
    /\ Len(Trim(nativeText)) = 10
    /\ nImages = 3
    /\ \A i \in 1..3 : Trim(ocrTexts[i]) # <<>>
    /\ ocrTexts[1] # ocrTexts[2]

\* C9: the returned text is the trimmed native text on the native path and
\* the trimmed newline-concatenation of the per-page OCR texts, and nothing
\* else, on the OCR path.
C9_SinglePath ==
    (pc = "done" /\ result.kind = "return") =>
        /\ path = "native" => result.val = Trim(nativeText)
        /\ path = "ocr" => result.val = Trim(join(<<"\n">>, ocrTexts))

\* C10: an error of the image path reads "Error extracting text from image: "
\* followed by the cause; an error of the PDF OCR phase names the PDF OCR
\* stage and ends with the cause; every error raised on those paths is one
\* of the two.
C10_ErrorNamesStage ==
    (pc = "done" /\ result.kind = "raise") =>
        /\ path = "image" =>
             /\ failStage = "image"
             /\ result.val = <<"Error extracting text from image: ", failCause>>
        /\ path = "ocr" =>
             /\ failStage = "pdf_ocr"
             /\ failCause \in Causes
             /\ result.val = <<"Error extracting text from PDF: ",
                               "Error processing PDF with OCR: ", failCause>>

\* the recognizer failed in the image path
C10_Witness ==
    /\ pc = "done" /\ result.kind = "raise"
    /\ path = "image" /\ nRecog = 1 /\ failCause = "cause B"

\* the recognizer call of this process_document call that raised, if any
RecognizerFailed ==
    failStage \in {"image", "pdf_ocr"} /\ nRecog > Len(ocrTexts)

\* every recognizer call of this call succeeded, and each gave blank text
AllBlank ==
    /\ failStage = "none"
    /\ ocrTexts # <<>>
    /\ \A i \in 1..Len(ocrTexts) : ocrTexts[i] = <<>>

\* the fragment texts of a readtext result, put together left to right with
\* one space between neighbours
RECURSIVE SpaceJoined(_)
SpaceJoined(results) ==
    IF results = <<>> THEN <<>>
    ELSE IF Len(results) = 1 THEN results[1][2]
    ELSE SpaceJoined(SubSeq(results, 1, Len(results) - 1))
            \o <<" ">> \o results[Len(results)][2]

Hello == <<"H", "e", "l", "l", "o">>
World == <<"W", "o", "r", "l", "d">>

C11_WitnessFailure ==
    /\ pc = "done" /\ path = "ocr" /\ RecognizerFailed
    /\ ocrTexts = << <<>> >> /\ result.kind = "raise"

\* C12: with the neural engine the text of each image or page, on the image
\* path and on the PDF OCR path alike, is the fragment texts of the engine's
\* result in detection order with single spaces between them; the fragments
\* Hello, World give "Hello World".
C12_FragmentsSpaceJoined ==
    /\ OCR_ENGINE = "easyocr" =>
         /\ Len(ocrTexts) = Len(engineOuts)
         /\ \A i \in 1..Len(ocrTexts) : ocrTexts[i] = SpaceJoined(engineOuts[i])
         /\ (pc = "done" /\ path = "image" /\ result.kind = "return") =>
                result.val = Trim(SpaceJoined(engineOuts[1]))
    /\ Recognize("easyocr", << Frag(Hello), Frag(World) >>)
         = Hello \o <<" ">> \o World

\* two fragments were recognized on a page of the PDF OCR path
C12_Witness ==
    /\ OCR_ENGINE = "easyocr" /\ pc = "done" /\ path = "ocr"
    /\ result.kind = "return"
    /\ \E i \in 1..Len(engineOuts) :
         Len(engineOuts[i]) = 2 /\ Len(ocrTexts[i]) = 5

\* every sample of the image is known to be white
AllWhite(im) ==
    /\ im.known /\ im.px # <<>>
    /\ \A i \in 1..Len(im.px) : im.px[i] = 255

\* every sample of the image is known to be zero
AllZero(im) ==
    /\ im.known /\ im.px # <<>>
    /\ \A i \in 1..Len(im.px) : im.px[i] = 0

\* _deskew_image has returned and `img` is still its return value
DeskewReturned ==
    \/ ipc = "deskewed"
    \/ ipc = "done" /\ entry = "_deskew_image"

\* the loop body of process_uploaded_files is running
BatchRunning == bpc \in {"top", "ocr", "ai", "upload", "db", "log", "next"}

\* process_uploaded_files left its loop, by its end or by an exception
BatchEnded == bpc # "idle" /\ ~BatchRunning

\* `results` holds an error record with this file's name and this message
Reported(name, m) ==
    \E j \in 1..Len(batch_results) :
        batch_results[j] = [filename |-> name, status |-> "error", error |-> m]

\* C13: with the engine 'easyocr', at most one easyocr.Reader is constructed
\* in a process whatever the sequence of get_ocr_processor, service
\* initialisation and process_document calls, and every recognition call
\* runs on that one reader.
C13_ModelLoadedOnce ==
    OCR_ENGINE = "easyocr" =>
        /\ readerLoads <= 1
        /\ Cardinality(readersUsed) <= 1

\* C14: an exception raised while one file of a batch is processed, by OCR,
\* by the AI extraction or by the database, is reported as an error record
\* with that file's name and the message of the exception, and the loop
\* ends only after every file of the batch was attempted, in order.
C14_FailureIsolated ==
    /\ \A k \in 1..Len(raisedAt) :
            Reported(batch[raisedAt[k].idx].name, raisedAt[k].msg)
    /\ \A k \in 1..Len(attempted) : attempted[k] = k
    /\ BatchEnded => Len(attempted) = Len(batch)

\* a batch of three ended: the first file failed in OCR, the second in the
\* database, the third was stored
C14_Witness ==
    /\ bpc = "done" /\ Len(batch) = 3
    /\ Len(raisedAt) = 2
    /\ raisedAt[1].idx = 1 /\ raisedAt[1].stage = "ocr"
    /\ raisedAt[2].idx = 2 /\ raisedAt[2].stage = "create_document"
    /\ Len(batch_results) = 3
    /\ batch_results[3] = [filename |-> batch[3].name, status |-> "success"]

\* C15: at every statement of preprocess_image (and of _deskew_image called
\* on its own), the rotation included, the image has the width and the
\* height of the argument.
C15_DimensionsPreserved ==
    entry # "none" => (img.w = src.w /\ img.h = src.h)

\* preprocess_image returned an image, wider than high, that deskew rotated
C15_Witness ==
    /\ entry = "preprocess_image" /\ ipc = "done" /\ nApply = 1
    /\ rotated /\ src.w = 3 /\ src.h = 2 /\ src.kind = "pil"

\* C16: preprocess_image on a PIL image of any mode, colour, paletted or
\* grayscale, does not raise and returns a single-channel image.
C16_AcceptsEveryMode ==
    (entry = "preprocess_image" /\ nApply = 1 /\ src.kind = "pil") =>
        /\ ipc # "error"
        /\ ipc = "done" => img.ch = 1

\* C17: preprocess_image applied to its own result does not raise and does
\* not rotate the image again.
C17_SecondPassKeepsSkew ==
    (entry = "preprocess_image" /\ nApply = 2) =>
        /\ ipc # "error"
        /\ ~rotated

\* C18: an all-white image that reached thresholding goes through it and
\* through deskew without an error and is not rotated.
C18_BlankNotRotated ==
    (entry = "preprocess_image" /\ nApply = 1 /\ AllWhite(src)
        /\ ipc \in {"blurred", "thresh", "deskewed", "done"}) =>
        /\ ~rotated
        /\ DeskewReturned => img = deskewIn

\* C19: after _deskew_image measured a non-empty foreground, `angle` is
\* -(90 + raw) for raw below -45 degrees and -raw otherwise (raw -45 gives
\* 45); the image was rotated exactly when the magnitude of `angle` exceeds
\* 0.5 degrees, and is returned as it came otherwise.
C19_AngleAndRotation ==
    (rectCalls = 1 /\ ipc \in {"deskewed", "done"}) =>
        /\ angle = (IF rawAngle < -450 THEN -(900 + rawAngle) ELSE -rawAngle)
        /\ rawAngle = -450 => angle = 450
        /\ rotated <=> (angle > 5 \/ angle < -5)
        /\ (~rotated /\ DeskewReturned) => img = deskewIn

\* a raw angle of exactly -45 degrees gave 45 and a rotation
C19_Witness ==
    /\ ipc = "deskewed" /\ rectCalls = 1
    /\ rawAngle = -450 /\ angle = 450 /\ rotated

\* an effective angle of exactly 0.5 degrees left the image as it was
C19_WitnessHalfDegree ==
    /\ ipc = "deskewed" /\ rectCalls = 1
    /\ rawAngle = -5 /\ angle = 5 /\ ~rotated /\ img = deskewIn

\* C20: when the image handed to _deskew_image has no non-zero sample, the
\* function returns it as it came: no bounding rectangle and no angle is
\* computed, nothing is rotated and nothing raises.
C20_EmptyForegroundUnchanged ==
    (deskewIn # NoImage /\ AllZero(deskewIn)) =>
        /\ ipc # "error"
        /\ rectCalls = 0
        /\ rawAngle = 0 /\ angle = 0
        /\ ~rotated
        /\ DeskewReturned => img = deskewIn

\* _deskew_image returned an all-zero 3 x 2 image
C20_Witness ==
    /\ entry = "_deskew_image" /\ ipc = "done"
    /\ AllZero(deskewIn) /\ deskewIn.w = 3 /\ deskewIn.h = 2
    /\ img = deskewIn

\* the five preprocessing steps, in the order the claim names them
FiveSteps ==
    <<"cvtColor BGR2GRAY", "GaussianBlur", "adaptiveThreshold",
      "_deskew_image", "medianBlur">>

\* st ends with the five steps in order; what comes before them is only the
\* change of container from PIL to OpenCV
CompletedFiveSteps(st) ==
    /\ Len(st) >= 5
    /\ SubSeq(st, Len(st) - 4, Len(st)) = FiveSteps
    /\ \A k \in 1..(Len(st) - 5) : st[k] = "cvtColor RGB2BGR"

\* C21: on the image path and on the PDF OCR path, every recognizer call is
\* made on an image that went through grayscale conversion, Gaussian
\* smoothing, adaptive thresholding, deskew and median denoise, in this
\* order; no recognizer call comes before its preprocess_image call.
C21_PreprocessedBeforeRecognition ==
    /\ \A i \in 1..Len(recogCalls) : CompletedFiveSteps(recogCalls[i].steps)
    /\ Len(recogCalls) = nRecog
    /\ nRecog <= nPre

\* a scanned PDF of three pages was recognized page by page
C21_Witness ==
    /\ pc = "done" /\ path = "ocr" /\ result.kind = "return"
    /\ nImages = 3 /\ Len(recogCalls) = 3 /\ nPre = 3

\* an image file was recognized
C21_WitnessImage ==
    /\ pc = "done" /\ path = "image" /\ result.kind = "return"
    /\ Len(recogCalls) = 1 /\ nPre = 1

\* C22: within one process_document call the file is read, opened and
\* rasterized at most once; the recognizer runs at most once on an image
\* file, at most once per rendered page, and exactly once per page when the
\* OCR phase returns; once a library call of the call raised to the caller
\* (read, rasterization, preprocessing or recognition), the call is over
\* with that exception and no recognizer call follows the failing one.
C22_NoRetries ==
    /\ nRaster <= 1 /\ nRead <= 1 /\ nOpen <= 1
    /\ path = "image" => (nRecog <= 1 /\ nPre <= 1)
    /\ path \in {"none", "native", "unsupported"} => (nRecog = 0 /\ nPre = 0)
    /\ path = "ocr" => (nRecog <= nImages /\ nPre <= nImages)
    /\ (path = "ocr" /\ pc = "done" /\ result.kind = "return") =>
            (nRecog = nImages /\ nPre = nImages /\ nRaster = 1)
    /\ failStage # "none" =>
            /\ pc = "done" /\ result.kind = "raise"
            /\ nRecog <= Len(ocrTexts) + 1

\* the recognizer raised on the second of three pages: two recognizer calls
C22_Witness ==
    /\ pc = "done" /\ path = "ocr" /\ failStage = "pdf_ocr"
    /\ nImages = 3 /\ nRecog = 2 /\ Len(ocrTexts) = 1 /\ nRaster = 1

\* three pages were recognized, each once
C22_WitnessComplete ==
    /\ pc = "done" /\ path = "ocr" /\ result.kind = "return"
    /\ nImages = 3 /\ nRecog = 3 /\ nativeFailed

\* C23: in every state of every process_document call the configured engine
\* is the one the processor was constructed with, and every recognizer call
\* of the call ran the neural recognizer when that value is 'easyocr' and
\* the classical one for any other value, with that recognizer's output.
C23_EngineFixed ==
    /\ OCR_ENGINE = configured
    /\ \A i \in 1..Len(recogCalls) :
            recogCalls[i].variant =
                (IF configured = "easyocr" THEN "easyocr_reader.readtext"
                 ELSE "pytesseract.image_to_string")
    /\ \A i \in 1..Len(engineOuts) :
            engineOuts[i] \in
                (IF configured = "easyocr" THEN EasyResults ELSE TessTexts)

\* with an engine value that is neither 'easyocr' nor 'tesseract', two pages
\* of a PDF were recognized by the classical recognizer
C23_Witness ==
    /\ configured = "paddle" /\ pc = "done" /\ path = "ocr"
    /\ Len(recogCalls) = 2 /\ Len(engineOuts) = 2
    /\ recogCalls[2].variant = "pytesseract.image_to_string"

\* with 'easyocr', an image file was recognized by the neural recognizer
C23_WitnessNeural ==
    /\ configured = "easyocr" /\ pc = "done" /\ path = "image"
    /\ Len(engineOuts) = 1
    /\ recogCalls[1].variant = "easyocr_reader.readtext"

\* C24: once extract_text_from_pdf has read the bytes of the file, the read
\* position of the file is at the start, in every later state of the call
\* and so on every exit: with native text, with OCR text and with an
\* exception of the OCR phase. On the image path the position stays where
\* Image.open and the decoding left it.
C24_PdfPositionReset ==
    /\ (fileName \in PdfNames /\ nRead = 1 /\ failStage # "pdf_read") =>
            filePos = "start"
    /\ (fileName \in ImageNames
            /\ (pc \in {"img_pre", "img_recog"} \/ nPre = 1)) =>
            filePos # "start"

\* the OCR phase of a PDF raised after the bytes were read
C24_Witness ==
    /\ fileName \in PdfNames /\ pc = "done" /\ nRead = 1
    /\ failStage = "pdf_ocr" /\ result.kind = "raise" /\ filePos = "start"

\* a PDF returned native text
C24_WitnessNative ==
    /\ fileName \in PdfNames /\ pc = "done" /\ nRead = 1
    /\ path = "native" /\ result.kind = "return" /\ filePos = "start"

\* an image file returned text, its position not at the start
C24_WitnessImage ==
    /\ fileName \in ImageNames /\ pc = "done" /\ result.kind = "return"
    /\ filePos = "moved"

\* C25: process_document ends with a ValueError exactly for the names whose
\* extension is not .pdf, .jpg, .jpeg or .png; a failure on the image path,
\* a ValueError of a library included, ends it with an Exception whose
\* message starts with "Error extracting text from image: ", and one on the
\* PDF path with an Exception whose message starts with
\* "Error extracting text from PDF: ".
C25_ValueErrorIffUnsupported ==
    /\ fileName \in OtherNames =>
            (pc = "done" /\ result.kind = "raise" /\ result.exc = "ValueError")
    /\ (pc = "done" /\ result.kind = "raise") =>
        /\ result.exc = "ValueError" <=> fileName \in OtherNames
        /\ fileName \in ImageNames =>
             /\ result.exc = "Exception"
             /\ result.val[1] = "Error extracting text from image: "
        /\ fileName \in PdfNames =>
             /\ result.exc = "Exception"
             /\ result.val[1] = "Error extracting text from PDF: "
    /\ failStage # "none" => (pc = "done" /\ result.kind = "raise")

\* a library raised a ValueError on the image path: the caller got Exception
C25_Witness ==
    /\ pc = "done" /\ fileName \in ImageNames /\ failStage = "image"
    /\ failCause = "cause A" /\ result.exc = "Exception"

\* a library raised a ValueError in the OCR phase of a PDF
C25_WitnessPdf ==
    /\ pc = "done" /\ fileName \in PdfNames /\ failStage = "pdf_ocr"
    /\ failCause = "cause A" /\ result.exc = "Exception"

\* an unsupported name ended with the ValueError
C25_WitnessUnsupported ==
    /\ pc = "done" /\ fileName = PdfTxt /\ result.exc = "ValueError"

\* the positions of the events of one kind
EventsOf(kind) == {k \in 1..Len(events) : events[k].ev = kind}

\* an event of this kind for file i comes before position k
Earlier(kind, i, k) ==
    \E j \in 1..(k - 1) : events[j].ev = kind /\ events[j].idx = i

\* the length of `results` when the iteration before the one ending at
\* position k ended
ResultsBefore(k) ==
    LET ends == {j \in EventsOf("end") : j < k}
    IN  IF ends = {} THEN 0 ELSE events[Max(ends)].n

\* C26: in process_uploaded_files a document record is created only for a
\* file of at most 10 MB whose extracted text is not blank and whose AI
\* extraction returned; the audit entry of a document is written only after
\* its record was created; the record is stored with the URL the upload
\* returned, or with "Upload failed" when the upload returned none; each
\* file adds at most one record to the results, and a file over the size
\* limit or with blank text adds none.
C26_RecordOnlyAfterAllSteps ==
    /\ \A k \in EventsOf("created") :
        /\ batch[events[k].idx].size <= 10485760
        /\ Trim(events[k].text) # <<>>
        /\ Earlier("ocr", events[k].idx, k)
        /\ Earlier("ai", events[k].idx, k)
        /\ \E j \in 1..(k - 1) :
            /\ events[j].ev = "upload" /\ events[j].idx = events[k].idx
            /\ events[k].url =
                 (IF events[j].url = "None" THEN "Upload failed"
                  ELSE events[j].url)
    /\ \A k \in EventsOf("logged") : Earlier("created", events[k].idx, k)
    /\ \A k \in EventsOf("end") :
        /\ events[k].n - ResultsBefore(k) \in {0, 1}
        /\ batch[events[k].idx].size > 10485760 =>
                events[k].n = ResultsBefore(k)
        /\ (\E j \in 1..(k - 1) :
                /\ events[j].ev = "ocr" /\ events[j].idx = events[k].idx
                /\ Trim(events[j].text) = <<>>) =>
                events[k].n = ResultsBefore(k)

\* the upload of the second file failed, its record was created with
\* "Upload failed" and its audit entry written; the first file was over the
\* size limit and the third had no text
C26_Witness ==
    /\ bpc = "done" /\ Len(batch) = 3
    /\ batch[1].size > 10485760
    /\ \E k \in EventsOf("created") :
            events[k].idx = 2 /\ events[k].url = "Upload failed"
    /\ \E k \in EventsOf("logged") : events[k].idx = 2
    /\ \E k \in EventsOf("ocr") :
            events[k].idx = 3 /\ events[k].text = <<>>
    /\ Len(batch_results) = 1

\* C27: a session enters the construction of its services at most once; the
\* flag services_initialized keeps the value it was first given, so a
\* session whose initialisation failed stays failed over every later run of
\* main, and its main never goes past the check to the page sections.
C27_InitOncePerSession ==
    \A s \in Sessions :
        /\ nInit[s] <= 1
        /\ nInit[s] = 0 <=> services_initialized[s] = "absent"
        /\ services_initialized[s] = firstFlag[s]
        /\ firstFlag[s] = "False" => ~reached[s]
        /\ reached[s] => services_initialized[s] = "True"

\* a session whose initialisation failed ran main a second time
C27_Witness ==
    \E s \in Sessions :
        /\ runs[s] = 2 /\ nInit[s] = 1
        /\ services_initialized[s] = "False" /\ ~reached[s]

\* a session whose initialisation succeeded ran main twice
C27_WitnessSuccess ==
    \E s \in Sessions :
        /\ runs[s] = 2 /\ nInit[s] = 1
        /\ services_initialized[s] = "True" /\ reached[s]

\* C28: for every raw angle of the minimum-area rectangle between -90 and 0
\* degrees, the angle _deskew_image rotates by lies between -45 and 45
\* degrees.
C28_AtMostHalfQuarterTurn ==
    (rectCalls = 1 /\ ipc \in {"deskewed", "done"}
        /\ rawAngle >= -900 /\ rawAngle <= 0) =>
        (angle >= -450 /\ angle <= 450)

\* a raw angle of -45.1 degrees gave -44.9 degrees and a rotation
C28_Witness ==
    /\ ipc = "deskewed" /\ rectCalls = 1
    /\ rawAngle = -451 /\ angle = -449 /\ rotated

\* a raw angle of -90 degrees gave no rotation
C28_WitnessUpright ==
    /\ ipc = "deskewed" /\ rectCalls = 1
    /\ rawAngle = -900 /\ angle = 0 /\ ~rotated

====
